---- MODULE Spec2Model ----
(***************************************************************************)
(* Model of bew.py: the Tesseract locator (OCRProcessor.__init__), the     *)
(* image preprocessor, the OCR invoker (OCRProcessor.extract_text), the    *)
(* backend facade (HandwritingToTextBackend) and the Tk callbacks of       *)
(* TextExtractorApp.                                                       *)
(*                                                                         *)
(* Python strings that the code inspects (paths, recognised text) are      *)
(* sequences of one-character strings; messages are sequences of string    *)
(* fragments, so that f"prefix: {cause}" is <<prefix>> \o cause.  The       *)
(* filesystem, the subprocess and the OCR engine are the environment: what *)
(* they answer is an input of the call, drawn from small sets.             *)
(***************************************************************************)
EXTENDS Integers, Sequences, FiniteSets, TLC

VARIABLES
    pc,             \* "start" | "ready" | "crashed": position of __main__
    hint,           \* tesseract_path argument of OCRProcessor.__init__
    existing,       \* path-form candidates for which os.path.exists is True at startup
    runnable,       \* path-form candidates that would run `--version` with exit code 0
    pathProbe,      \* outcome of subprocess.run(['tesseract','--version']) at startup
    tesseract_cmd,  \* pytesseract.pytesseract.tesseract_cmd
    config,         \* OCRProcessor.config
    initLog,        \* the checks the locator made, in order
    current_image,  \* TextExtractorApp.current_image
    upload_label,   \* text of TextExtractorApp.upload_label
    text_display,   \* content of TextExtractorApp.text_display
    disk,           \* content of each output file, or Absent
    last            \* the last operation: its inputs, what it touched, its outcome

vars == <<pc, hint, existing, runnable, pathProbe, tesseract_cmd, config, initLog,
          current_image, upload_label, text_display, disk, last>>

(***************************************************************************)
(* Bounds of the model.                                                    *)
(***************************************************************************)
\* longest text the OCR engine returns / an API caller saves
MaxTextLen == 1

(***************************************************************************)
(* Python values and string functions.                                     *)
(***************************************************************************)
PyNone == [kind |-> "None", s |-> <<>>]
PyInt == [kind |-> "int", s |-> <<>>]
PyStr(s) == [kind |-> "str", s |-> s]

\* bool(x) for None and str; a non-zero int is true
Truthy(x) == CASE x.kind = "None" -> FALSE
               [] x.kind = "str" -> Len(x.s) > 0
               [] OTHER -> TRUE

\* one character of str.lower()
LowerChar(c) ==
    CASE c = "P" -> "p" [] c = "N" -> "n" [] c = "G" -> "g" [] c = "J" -> "j"
      [] c = "E" -> "e" [] c = "B" -> "b" [] c = "M" -> "m" [] c = "A" -> "a"
      [] c = "T" -> "t" [] c = "X" -> "x" [] c = "I" -> "i" [] c = "F" -> "f"
      [] OTHER -> c

\* str.lower()
Lower(s) == [i \in 1..Len(s) |-> LowerChar(s[i])]

\* str.endswith(suffix)
EndsWith(s, suffix) ==
    /\ Len(s) >= Len(suffix)
    /\ SubSeq(s, Len(s) - Len(suffix) + 1, Len(s)) = suffix

\* str.endswith(tuple_of_suffixes)
EndsWithAny(s, suffixes) == \E suffix \in suffixes : EndsWith(s, suffix)

Whitespace == {" ", "\n"}

RECURSIVE LStrip(_)
LStrip(s) == IF s # <<>> /\ Head(s) \in Whitespace THEN LStrip(Tail(s)) ELSE s

RECURSIVE RStrip(_)
RStrip(s) ==
    IF s # <<>> /\ s[Len(s)] \in Whitespace THEN RStrip(SubSeq(s, 1, Len(s) - 1)) ELSE s

\* str.strip()
Strip(s) == RStrip(LStrip(s))

RECURSIVE Basename(_)
\* os.path.basename: what follows the last separator
Basename(p) ==
    IF p = <<>> THEN <<>>
    ELSE IF p[Len(p)] = "/" THEN <<>>
    ELSE Append(Basename(SubSeq(p, 1, Len(p) - 1)), p[Len(p)])

\* f"{prefix}{cause}"
Wrap(prefix, cause) == <<prefix>> \o cause

IsSuffix(suffix, s) == EndsWith(s, suffix)

(***************************************************************************)
(* The engine locator: OCRProcessor.__init__.                              *)
(***************************************************************************)
NoHint == "<None>"
CustomPath == "D:\\tools\\tesseract.exe"
BareName == "tesseract"

\* the tesseract_path values a caller passes: None, "", a path, the bare name
Hints == {NoHint, "", CustomPath, BareName}

WellKnownPaths ==
    << "C:\\Program Files\\Tesseract-OCR\\tesseract.exe",
       "C:\\Program Files (x86)\\Tesseract-OCR\\tesseract.exe",
       "C:\\Users\\<USERNAME>\\AppData\\Local\\Programs\\Tesseract-OCR\\tesseract.exe",
       BareName >>

PathForms == {WellKnownPaths[i] : i \in 1..3} \cup {CustomPath}

\* possible_paths, after the hint is inserted
PossiblePaths(h) == IF h # NoHint /\ h # "" THEN <<h>> \o WellKnownPaths ELSE WellKnownPaths

ProbeOutcomes == {"ok", "nonzero", "timeout", "raise"}

\* the version probe's timeouts, in seconds
InitProbeTimeout == 10
CallProbeTimeout == 5

\* the pytesseract default before the locator assigns it
DefaultCmd == "tesseract"

Check(kind, path, outcome) == [check |-> kind, path |-> path, outcome |-> outcome]

RECURSIVE ProbeLoop(_, _, _, _)

\* a loop that goes on to the next candidate after accepting one
BreakMissing(paths, i, log, acc) == ProbeLoop(paths, i + 1, log, acc)

\* `break` after a candidate is accepted: the loop ends with the accepted candidate
Break(paths, i, log, acc) == [acc EXCEPT !.log = log]

\* a handler that lets the exception end the loop
AbortOnException(paths, i, log, acc) == [acc EXCEPT !.log = log]

\* `except Exception as e: ... continue`: the next candidate is tried
OnException(paths, i, log, acc) == ProbeLoop(paths, i + 1, log, acc)

\* a locator that accepts a path form without looking at the filesystem
AcceptsAnyPath(path) == TRUE

\* `if os.path.exists(path):` for a path-form candidate
AcceptsPath(path) == path \in existing

\* `for path in possible_paths:` from candidate i on.  acc is (tesseract_found,
\* tesseract_cmd) so far; log is the checks made so far.  The bare name is probed
\* (exit code 0 accepts; a non-zero exit falls through to the next candidate; a
\* timeout or any other exception is caught and `continue`s); a path form is
\* accepted when it exists.
ProbeLoop(paths, i, log, acc) ==
    IF i > Len(paths) THEN [acc EXCEPT !.log = log]
    ELSE LET path == paths[i] IN
         IF path = BareName
         THEN LET log2 == Append(log, Check("probe", path, pathProbe)) IN
              CASE pathProbe = "ok" ->
                     Break(paths, i, log2, [found |-> TRUE, cmd |-> BareName, log |-> log2])
                [] pathProbe = "nonzero" -> ProbeLoop(paths, i + 1, log2, acc)
                [] OTHER -> OnException(paths, i, log2, acc)
         ELSE LET ex == IF path \in existing THEN "True" ELSE "False"
                  log2 == Append(log, Check("exists", path, ex)) IN
              IF AcceptsPath(path)
              THEN Break(paths, i, log2, [found |-> TRUE, cmd |-> path, log |-> log2])
              ELSE ProbeLoop(paths, i + 1, log2, acc)

\* the loop of OCRProcessor.__init__ over the whole candidate list
Locate(paths) ==
    ProbeLoop(paths, 1, <<>>, [found |-> FALSE, cmd |-> DefaultCmd, log |-> <<>>])

\* the ValueError of a failed construction: it lists possible_paths
NotFoundError(paths) ==
    <<"Tesseract not found! Please install Tesseract-OCR from:\nhttps://github.com/UB-Mannheim/tesseract/wiki\n",
      "Tried paths: ">> \o paths

EngineConfig == "--oem 3 --psm 6"

(***************************************************************************)
(* Outcomes of a call, and the environment a call reads.                   *)
(***************************************************************************)
\* a call that returned: (ok, msg) for the facade's pairs, msg alone otherwise
Return(ok, msg, log) ==
    [kind |-> "return", ok |-> ok, msg |-> msg, cause |-> <<>>, log |-> log]

\* a call that raised ValueError(msg) on catching an exception whose message is cause
Raise(msg, cause, log) ==
    [kind |-> "raise", ok |-> FALSE, msg |-> msg, cause |-> cause, log |-> log]

NoOutcome == [kind |-> "none", ok |-> FALSE, msg |-> <<>>, cause |-> <<>>, log |-> <<>>]

\* what os.path.exists / Image.open / Image.convert find at the image path:
\* no file; a good image; a file Image.open rejects; a file whose pixel data
\* cannot be loaded (Image.open is lazy, the first filter loads)
FileStates == {"absent", "image", "corrupt", "truncated"}

\* what open(output_path, 'w') and f.write do
WriteStates == {"ok", "open_fails", "write_fails"}

TextChars == {" ", "T"}

\* the strings of at most MaxTextLen characters
Texts == UNION {[1..n -> TextChars] : n \in 0..MaxTextLen}

\* pytesseract.image_to_string raises, or returns a text
OcrOutcomes == {[raises |-> TRUE, text |-> <<>>]} \cup {[raises |-> FALSE, text |-> t] : t \in Texts}

DefaultEnv ==
    [fstate |-> "image", cmdExists |-> TRUE, probe |-> "ok",
     ocr |-> [raises |-> FALSE, text |-> <<>>], wstate |-> "ok"]

Has(log, event) == \E i \in 1..Len(log) : log[i] = event

\* os.path.exists(image_path) for a str
Exists(image_path, env) == image_path.s # <<>> /\ env.fstate # "absent"

(***************************************************************************)
(* OCRProcessor.preprocess_image                                           *)
(***************************************************************************)
ProcessedImage == <<"convert('L')", "Contrast.enhance(2)", "filter(SHARPEN)">>

\* the contrast multiplier
ContrastFactor == 2

\* the body of the try block
PreprocessBody(image_path, env) ==
    IF image_path.kind = "None"
    THEN Raise(<<"Image path is None">>, <<>>, <<>>)
    ELSE IF ~Exists(image_path, env)
    THEN Raise(<<"Image file does not exist: ">> \o image_path.s, <<>>, <<"exists_image">>)
    ELSE IF env.fstate = "corrupt"
    THEN Raise(<<"cannot identify image file">>, <<>>, <<"exists_image", "open_image">>)
    ELSE IF env.fstate = "truncated"
    THEN Raise(<<"image file is truncated">>, <<>>,
               <<"exists_image", "open_image", "convert_L">>)
    ELSE Return(TRUE, ProcessedImage,
                <<"exists_image", "open_image", "convert_L", "enhance_contrast",
                  "filter_SHARPEN">>)

\* preprocess_image: every exception becomes ValueError("Image processing failed: ...")
preprocess_image(image_path, env) ==
    LET r == PreprocessBody(image_path, env) IN
    IF r.kind = "raise"
    THEN Raise(Wrap("Image processing failed: ", r.msg), r.msg, r.log)
    ELSE r

(***************************************************************************)
(* OCRProcessor.extract_text                                               *)
(***************************************************************************)
\* a validation that treats a failed probe as a warning
ValidateEngineIgnoresProbe(cmd, env) ==
    IF ~(env.cmdExists \/ cmd = BareName)
    THEN Raise(<<"Tesseract validation failed: ", "Tesseract executable not found at: ", cmd>>,
               <<>>, <<"exists_cmd">>)
    ELSE Return(TRUE, <<>>, <<"exists_cmd", "probe_cmd">>)

\* the inner try block that tests the tesseract command: the command must exist
\* or be the bare name, and `cmd --version` must exit 0 within the timeout.  The
\* ValueErrors raised inside the try are caught by `except Exception` and
\* re-raised as "Tesseract validation failed"; TimeoutExpired has its own clause.
ValidateEngine(cmd, env) ==
    IF ~(env.cmdExists \/ cmd = BareName)
    THEN Raise(<<"Tesseract validation failed: ", "Tesseract executable not found at: ", cmd>>,
               <<>>, <<"exists_cmd">>)
    ELSE CASE env.probe = "ok" -> Return(TRUE, <<>>, <<"exists_cmd", "probe_cmd">>)
           [] env.probe = "nonzero" ->
                Raise(<<"Tesseract validation failed: ", "Tesseract test failed: ", "<stderr>">>,
                      <<>>, <<"exists_cmd", "probe_cmd">>)
           [] env.probe = "timeout" ->
                Raise(<<"Tesseract test timed out">>, <<>>, <<"exists_cmd", "probe_cmd">>)
           [] OTHER ->
                Raise(<<"Tesseract validation failed: ", "<OSError>">>,
                      <<>>, <<"exists_cmd", "probe_cmd">>)

\* the image to analyse: the preprocessor's, or the raw file
LoadImage(image_path, preprocess, env) ==
    IF preprocess
    THEN preprocess_image(image_path, env)
    ELSE IF ~Exists(image_path, env)
    THEN Raise(<<"Image file does not exist: ">> \o image_path.s, <<>>, <<"exists_image">>)
    ELSE IF env.fstate = "corrupt"
    THEN Raise(<<"cannot identify image file">>, <<>>, <<"exists_image", "open_image">>)
    ELSE Return(TRUE, <<"raw">>, <<"exists_image", "open_image">>)

\* pytesseract.image_to_string(img, config=self.config), then text.strip()
Recognize(img, env) ==
    IF env.ocr.raises \/ (img = <<"raw">> /\ env.fstate = "truncated")
    THEN Raise(<<"<TesseractError>">>, <<>>, <<"image_to_string">>)
    ELSE Return(TRUE, Strip(env.ocr.text), <<"image_to_string">>)

\* an invoker that probes the engine before it looks at the path
ExtractBodyProbesFirst(image_path, preprocess, cmd, env) ==
    LET v == ValidateEngine(cmd, env) IN
    IF v.kind = "raise" THEN v
    ELSE IF image_path.kind = "None"
    THEN Raise(<<"Image path is None">>, <<>>, v.log)
    ELSE IF image_path.kind = "str" /\ image_path.s = <<>>
    THEN Raise(<<"Image path is empty string">>, <<>>, v.log)
    ELSE IF image_path.kind # "str"
    THEN Raise(<<"Image path is wrong type: ", "<class 'int'>">>, <<>>, v.log)
    ELSE LET img == LoadImage(image_path, preprocess, env) IN
         IF img.kind = "raise" THEN [img EXCEPT !.log = v.log \o img.log]
         ELSE LET t == Recognize(img.msg, env) IN
              [t EXCEPT !.log = v.log \o img.log \o t.log]

\* the body of extract_text's try block
ExtractBody(image_path, preprocess, cmd, env) ==
    IF image_path.kind = "None"
    THEN Raise(<<"Image path is None">>, <<>>, <<>>)
    ELSE IF image_path.kind = "str" /\ image_path.s = <<>>
    THEN Raise(<<"Image path is empty string">>, <<>>, <<>>)
    ELSE IF image_path.kind # "str"
    THEN Raise(<<"Image path is wrong type: ", "<class 'int'>">>, <<>>, <<>>)
    ELSE LET img == LoadImage(image_path, preprocess, env) IN
         IF img.kind = "raise" THEN img
         ELSE LET v == ValidateEngine(cmd, env) IN
              IF v.kind = "raise" THEN [v EXCEPT !.log = img.log \o v.log]
              ELSE LET t == Recognize(img.msg, env) IN
                   [t EXCEPT !.log = img.log \o v.log \o t.log]

\* extract_text: every exception becomes ValueError("Text extraction failed: ...")
extract_text(image_path, preprocess, cmd, env) ==
    LET r == ExtractBody(image_path, preprocess, cmd, env)
        log == <<"call_extract_text">> \o r.log IN
    IF r.kind = "raise"
    THEN Raise(Wrap("Text extraction failed: ", r.msg), r.msg, log)
    ELSE [r EXCEPT !.log = log]

(***************************************************************************)
(* HandwritingToTextBackend                                                *)
(***************************************************************************)
SupportedSuffixes ==
    { <<".", "p", "n", "g">>, <<".", "j", "p", "g">>,
      <<".", "j", "p", "e", "g">>, <<".", "b", "m", "p">> }

\* a gate that compares the path as typed
FormatGateCaseSensitive(s) == EndsWithAny(s, SupportedSuffixes)

\* image_path.lower().endswith(('.png', '.jpg', '.jpeg', '.bmp'))
FormatGate(s) == EndsWithAny(Lower(s), SupportedSuffixes)

\* a facade that leaves the existence check to the invoker
FileMissingUnchecked(image_path, env) == FALSE

\* `if not os.path.exists(image_path):`
FileMissing(image_path, env) == ~Exists(image_path, env)

\* process_image: the path must be non-empty, exist and carry a supported
\* extension; then the invoker runs and its exception becomes (False, str(e))
process_image(image_path, cmd, env) ==
    IF ~Truthy(image_path)
    THEN Return(FALSE, <<"No image path provided">>, <<>>)
    ELSE IF FileMissing(image_path, env)
    THEN Return(FALSE, <<"File not found">>, <<"exists_image">>)
    ELSE IF ~FormatGate(image_path.s)
    THEN Return(FALSE, <<"Unsupported file format">>, <<"exists_image">>)
    ELSE LET r == extract_text(image_path, TRUE, cmd, env)
             log == <<"exists_image">> \o r.log IN
         IF r.kind = "raise"
         THEN [Return(FALSE, r.msg, log) EXCEPT !.cause = r.cause]
         ELSE Return(TRUE, r.msg, log)

Absent == [present |-> FALSE, content |-> <<>>]
File(content) == [present |-> TRUE, content |-> content]

\* a save that opens the file before it looks at its arguments
SaveOpensFirst(text, output_path, env, d) ==
    IF output_path.kind # "str" \/ env.wstate = "open_fails"
    THEN [out |-> Return(FALSE, <<"Error saving file: ", "<OSError>">>, <<"open_w">>),
          disk |-> d]
    ELSE IF ~Truthy(text)
    THEN [out |-> Return(FALSE, <<"No text to save">>, <<"open_w">>),
          disk |-> IF output_path.s \in DOMAIN d
                   THEN [d EXCEPT ![output_path.s] = File(<<>>)] ELSE d]
    ELSE [out |-> Return(TRUE, <<"Text saved successfully">>, <<"open_w", "write">>),
          disk |-> [d EXCEPT ![output_path.s] = File(text.s)]]

\* save_text: (out, disk) after the call on disk d.  open(..., 'w') creates or
\* truncates the file before anything is written; every exception becomes
\* (False, "Error saving file: ...")
save_text(text, output_path, env, d) ==
    IF ~Truthy(text)
    THEN [out |-> Return(FALSE, <<"No text to save">>, <<>>), disk |-> d]
    ELSE IF ~Truthy(output_path)
    THEN [out |-> Return(FALSE, <<"No output path provided">>, <<>>), disk |-> d]
    ELSE IF env.wstate = "open_fails"
    THEN [out |-> Return(FALSE, <<"Error saving file: ", "<OSError>">>, <<"open_w">>),
          disk |-> d]
    ELSE IF env.wstate = "write_fails"
    THEN [out |-> Return(FALSE, <<"Error saving file: ", "<OSError>">>, <<"open_w", "write">>),
          disk |-> [d EXCEPT ![output_path.s] = File(<<>>)]]
    ELSE [out |-> Return(TRUE, <<"Text saved successfully">>, <<"open_w", "write">>),
          disk |-> [d EXCEPT ![output_path.s] = File(text.s)]]

(***************************************************************************)
(* Inputs.                                                                 *)
(***************************************************************************)
\* the files the user picks in the dialog or a caller passes
ImagePaths ==
    { <<"a", ".", "p", "n", "g">>,
      <<"a", ".", "P", "N", "G">>,
      <<"a", ".", "J", "p", "G">>,
      <<"a", ".", "j", "p", "e", "g">>,
      <<"d", "/", "b", ".", "B", "m", "p">>,
      <<"a", ".", "t", "x", "t">>,
      <<"a", ".", "p", "n", "g", "x">>,
      <<"a", "p", "n", "g">> }

OutPaths == { <<"o", ".", "t", "x", "t">> }

\* the environments that differ in something a call reads: the engine is looked
\* at only once the image is loaded, the OCR result only once the probe passed
ImageEnvs ==
    LET base == DefaultEnv IN
    { [base EXCEPT !.fstate = f] : f \in {"absent", "corrupt"} }
    \cup { [base EXCEPT !.fstate = f, !.cmdExists = FALSE] : f \in {"image", "truncated"} }
    \cup { [base EXCEPT !.fstate = f, !.probe = p] :
             f \in {"image", "truncated"}, p \in ProbeOutcomes \ {"ok"} }
    \cup { [base EXCEPT !.fstate = f, !.ocr = o] :
             f \in {"image", "truncated"}, o \in OcrOutcomes }

WriteEnvs == { [DefaultEnv EXCEPT !.wstate = w] : w \in WriteStates }

NoModal == [kind |-> "none", msg |-> <<>>]
Modal(kind, msg) == [kind |-> kind, msg |-> msg]

Last(op, path, preprocess, text, env, out, modal) ==
    [op |-> op, path |-> path, preprocess |-> preprocess, text |-> text,
     env |-> env, out |-> out, modal |-> modal]

NoLabel == <<"No image selected\nSupported formats: PNG, JPG, JPEG, BMP">>

(***************************************************************************)
(* Startup: __main__ builds TextExtractorApp, which builds the backend,    *)
(* which runs the locator.  Nothing catches the locator's ValueError.      *)
(***************************************************************************)
Construct ==
    /\ pc = "start"
    /\ LET paths == PossiblePaths(hint)
           r == Locate(paths) IN
       /\ initLog' = r.log
       /\ IF r.found
          THEN /\ pc' = "ready"
               /\ tesseract_cmd' = r.cmd
               /\ config' = EngineConfig
               /\ last' = Last("__main__", PyNone, FALSE, PyNone, DefaultEnv,
                               Return(TRUE, <<>>, <<>>), NoModal)
          ELSE /\ pc' = "crashed"
               /\ UNCHANGED <<tesseract_cmd, config>>
               /\ last' = Last("__main__", PyNone, FALSE, PyNone, DefaultEnv,
                               Raise(NotFoundError(paths), <<>>, <<>>), NoModal)
    /\ UNCHANGED <<hint, existing, runnable, pathProbe, current_image, upload_label,
                   text_display, disk>>

(***************************************************************************)
(* TextExtractorApp callbacks.                                             *)
(***************************************************************************)
engineVars == <<pc, hint, existing, runnable, pathProbe, config, initLog>>

\* upload_image: file_path is what the file dialog returns, "" on cancel
upload_image(file_path) ==
    /\ pc = "ready"
    /\ IF file_path # <<>>
       THEN /\ current_image' = PyStr(file_path)
            /\ upload_label' = <<"Selected: ">> \o Basename(file_path)
       ELSE /\ current_image' = PyNone
            /\ UNCHANGED upload_label
    /\ last' = Last("upload_image", PyStr(file_path), FALSE, PyNone, DefaultEnv,
                    NoOutcome, NoModal)
    /\ UNCHANGED <<engineVars, tesseract_cmd, text_display, disk>>

\* TextExtractorApp.extract_text with nothing selected
App_extract_text_none ==
    /\ pc = "ready"
    /\ ~Truthy(current_image)
    /\ last' = Last("App.extract_text", current_image, FALSE, PyNone, DefaultEnv,
                    NoOutcome, Modal("error", <<"Please select an image first!">>))
    /\ UNCHANGED <<engineVars, tesseract_cmd, current_image, upload_label,
                   text_display, disk>>

\* a callback that falls back to the bare name when the extraction fails
App_extract_text_rebinds(env) ==
    /\ pc = "ready"
    /\ Truthy(current_image)
    /\ LET r == process_image(current_image, tesseract_cmd, env) IN
       /\ text_display' = IF r.ok THEN r.msg ELSE text_display
       /\ tesseract_cmd' = IF r.ok THEN tesseract_cmd ELSE "tesseract.exe"
       /\ last' = Last("App.extract_text", current_image, TRUE, PyNone, env, r,
                       IF r.ok THEN Modal("info", <<"Text extracted successfully!">>)
                       ELSE Modal("error", Wrap("Text extraction failed: ", r.msg)))
    /\ UNCHANGED <<engineVars, current_image, upload_label, disk>>

\* TextExtractorApp.extract_text on the selected image
App_extract_text(env) ==
    /\ pc = "ready"
    /\ Truthy(current_image)
    /\ LET r == process_image(current_image, tesseract_cmd, env) IN
       /\ text_display' = IF r.ok THEN r.msg ELSE text_display
       /\ last' = Last("App.extract_text", current_image, TRUE, PyNone, env, r,
                       IF r.ok THEN Modal("info", <<"Text extracted successfully!">>)
                       ELSE Modal("error", Wrap("Text extraction failed: ", r.msg)))
    /\ UNCHANGED <<engineVars, tesseract_cmd, current_image, upload_label, disk>>

\* text_display.get('1.0', tk.END): the content and the widget's final newline
DisplayGet == text_display \o <<"\n">>

\* TextExtractorApp.save_text: file_path is what the save dialog returns
App_save_text(file_path, env) ==
    /\ pc = "ready"
    /\ LET text_content == Strip(DisplayGet) IN
       IF text_content = <<>>
       THEN /\ file_path = <<>> /\ env = DefaultEnv
            /\ last' = Last("App.save_text", PyStr(file_path), FALSE, PyStr(text_content),
                            env, NoOutcome, Modal("error", <<"No text to save!">>))
            /\ UNCHANGED disk
       ELSE IF file_path = <<>>
       THEN /\ env = DefaultEnv
            /\ last' = Last("App.save_text", PyStr(file_path), FALSE, PyStr(text_content),
                            env, NoOutcome, NoModal)
            /\ UNCHANGED disk
       ELSE LET r == save_text(PyStr(text_content), PyStr(file_path), env, disk) IN
            /\ disk' = r.disk
            /\ last' = Last("App.save_text", PyStr(file_path), FALSE, PyStr(text_content),
                            env, r.out,
                            Modal(IF r.out.ok THEN "info" ELSE "error", r.out.msg))
    /\ UNCHANGED <<engineVars, tesseract_cmd, current_image, upload_label, text_display>>

\* clear_text
clear_text ==
    /\ pc = "ready"
    /\ text_display' = <<>>
    /\ last' = Last("clear_text", PyNone, FALSE, PyNone, DefaultEnv, NoOutcome, NoModal)
    /\ UNCHANGED <<engineVars, tesseract_cmd, current_image, upload_label, disk>>

(***************************************************************************)
(* Calls of the backend's functions by a caller other than the window.     *)
(***************************************************************************)
appVars == <<current_image, upload_label, text_display>>

CallProcessImage(image_path, env) ==
    /\ pc = "ready"
    /\ LET r == process_image(image_path, tesseract_cmd, env) IN
       /\ Has(r.log, "exists_image") \/ env = DefaultEnv
       /\ last' = Last("process_image", image_path, TRUE, PyNone, env, r, NoModal)
    /\ UNCHANGED <<engineVars, tesseract_cmd, appVars, disk>>

CallExtractText(image_path, preprocess, env) ==
    /\ pc = "ready"
    /\ LET r == extract_text(image_path, preprocess, tesseract_cmd, env) IN
       /\ Has(r.log, "exists_image") \/ env = DefaultEnv
       /\ last' = Last("extract_text", image_path, preprocess, PyNone, env, r, NoModal)
    /\ UNCHANGED <<engineVars, tesseract_cmd, appVars, disk>>

CallPreprocessImage(image_path, env) ==
    /\ pc = "ready"
    /\ env.cmdExists /\ env.probe = "ok" /\ env.ocr = DefaultEnv.ocr
    /\ LET r == preprocess_image(image_path, env) IN
       /\ Has(r.log, "exists_image") \/ env = DefaultEnv
       /\ last' = Last("preprocess_image", image_path, TRUE, PyNone, env, r, NoModal)
    /\ UNCHANGED <<engineVars, tesseract_cmd, appVars, disk>>

CallSaveText(text, output_path, env) ==
    /\ pc = "ready"
    /\ LET r == save_text(text, output_path, env, disk) IN
       /\ Has(r.out.log, "open_w") \/ env = DefaultEnv
       /\ disk' = r.disk
       /\ last' = Last("save_text", output_path, FALSE, text, env, r.out, NoModal)
    /\ UNCHANGED <<engineVars, tesseract_cmd, appVars>>

(***************************************************************************)
(* Specifications.                                                         *)
(***************************************************************************)
InitApp ==
    /\ pc = "start"
    /\ tesseract_cmd = DefaultCmd
    /\ config = ""
    /\ initLog = <<>>
    /\ current_image = PyNone
    /\ upload_label = NoLabel
    /\ text_display = <<>>
    /\ disk = [p \in OutPaths |-> Absent]
    /\ last = Last("none", PyNone, FALSE, PyNone, DefaultEnv, NoOutcome, NoModal)

\* the locator under every hint and every state of the candidates
InitLocator ==
    /\ InitApp
    /\ hint \in Hints
    /\ existing \in SUBSET PathForms
    /\ runnable \in SUBSET existing
    /\ pathProbe \in ProbeOutcomes

NextLocator == Construct

SpecLocator == InitLocator /\ [][NextLocator]_vars

\* the program as __main__ starts it: no hint; an engine on the PATH, or in the
\* first install location, or none at all
Init ==
    /\ InitApp
    /\ hint = NoHint
    /\ existing \in SUBSET {WellKnownPaths[1]}
    /\ runnable = existing
    /\ pathProbe \in {"ok", "raise"}
    /\ existing = {} \/ pathProbe = "raise"

ApiPaths == {PyNone, PyStr(<<>>)} \cup {PyStr(p) : p \in ImagePaths}

APng == PyStr(<<"a", ".", "p", "n", "g">>)

InvokerPaths == {PyNone, PyInt, PyStr(<<>>), APng}

\* the texts a caller saves: None, "", a blank, a word, a word after a blank
SaveTexts == {PyNone, PyStr(<<>>), PyStr(<<" ">>), PyStr(<<"T">>), PyStr(<<" ", "T">>)}

SavePaths == {PyNone, PyStr(<<>>)} \cup {PyStr(p) : p \in OutPaths}

\* the backend's functions under every input of the model
NextBackend ==
    \/ Construct
    \/ \E image_path \in ApiPaths, env \in ImageEnvs : CallProcessImage(image_path, env)
    \/ \E image_path \in InvokerPaths, preprocess \in BOOLEAN, env \in ImageEnvs :
          CallExtractText(image_path, preprocess, env)
    \/ \E image_path \in {PyNone, PyStr(<<>>), APng}, env \in ImageEnvs :
          CallPreprocessImage(image_path, env)
    \/ \E text \in SaveTexts, output_path \in SavePaths, env \in WriteEnvs :
          CallSaveText(text, output_path, env)

SpecBackend == Init /\ [][NextBackend]_vars

\* the files picked in the window
GuiPaths == { <<"d", "/", "b", ".", "B", "m", "p">>, <<"a", ".", "t", "x", "t">> }

\* one environment for each way a call ends
CoarseEnvs ==
    { DefaultEnv,
      [DefaultEnv EXCEPT !.fstate = "absent"],
      [DefaultEnv EXCEPT !.fstate = "corrupt"],
      [DefaultEnv EXCEPT !.cmdExists = FALSE],
      [DefaultEnv EXCEPT !.probe = "nonzero"],
      [DefaultEnv EXCEPT !.probe = "timeout"],
      [DefaultEnv EXCEPT !.ocr = [raises |-> TRUE, text |-> <<>>]] }
    \cup { [DefaultEnv EXCEPT !.ocr = [raises |-> FALSE, text |-> t]] : t \in Texts }

\* the whole program: startup, the window's callbacks, and the backend's functions
Next ==
    \/ Construct
    \/ \E file_path \in GuiPaths \cup {<<>>} : upload_image(file_path)
    \/ App_extract_text_none
    \/ \E env \in CoarseEnvs : App_extract_text(env)
    \/ \E file_path \in OutPaths \cup {<<>>}, env \in WriteEnvs : App_save_text(file_path, env)
    \/ clear_text
    \/ \E image_path \in {PyNone, APng}, env \in CoarseEnvs : CallProcessImage(image_path, env)
    \/ \E image_path \in {PyInt, APng}, preprocess \in BOOLEAN, env \in CoarseEnvs :
          CallExtractText(image_path, preprocess, env)
    \/ \E image_path \in {PyNone, APng}, env \in CoarseEnvs : CallPreprocessImage(image_path, env)
    \/ \E text \in SaveTexts, output_path \in SavePaths, env \in WriteEnvs :
          CallSaveText(text, output_path, env)

Spec == Init /\ [][Next]_vars

(***************************************************************************)
(* The claims.                                                             *)
(***************************************************************************)
\* the candidate would be accepted if the locator reached it
WouldAccept(candidate) ==
    IF candidate = BareName THEN pathProbe = "ok" ELSE candidate \in existing

\* the version probe of the reference exits 0
Runnable(cmd) == IF cmd = BareName THEN pathProbe = "ok" ELSE cmd \in runnable

Before(log, first, second) ==
    \E i, j \in 1..Len(log) : i < j /\ log[i] = first /\ log[j] = second

\* C1: the locator checks the candidates in list order, one check each, and
\* stops at the first accepted one: the engine reference is the earliest accepted
\* candidate and nothing after it is checked for existence or probed.
C1_FirstAcceptedWins ==
    pc = "ready" =>
        LET paths == PossiblePaths(hint)
            n == Len(initLog) IN
        /\ n \in 1..Len(paths)
        /\ \A k \in 1..n : initLog[k].path = paths[k]
        /\ \A k \in 1..n : initLog[k].check = IF paths[k] = BareName THEN "probe" ELSE "exists"
        /\ \A k \in 1..(n - 1) : ~WouldAccept(paths[k])
        /\ WouldAccept(paths[n])
        /\ tesseract_cmd = paths[n]

\* several candidates would be accepted, and the loop stopped before the end
C1_Witness ==
    /\ pc = "ready"
    /\ Cardinality({i \in 1..Len(PossiblePaths(hint)) : WouldAccept(PossiblePaths(hint)[i])}) >= 3
    /\ Len(initLog) < Len(PossiblePaths(hint)) - 1

\* C2: construction succeeds if and only if some candidate is accepted; when
\* none is, it fails with an error that lists every candidate, after every
\* candidate was tried: a probe that raises or times out does not end the loop.
C2_FailsIffNoneAccepted ==
    pc # "start" =>
        LET paths == PossiblePaths(hint) IN
        /\ pc = "ready" <=> \E i \in 1..Len(paths) : WouldAccept(paths[i])
        /\ pc = "crashed" =>
              /\ last.out.kind = "raise"
              /\ Len(initLog) = Len(paths)
              /\ \A i \in 1..Len(paths) : initLog[i].path = paths[i]
              /\ \A i \in 1..Len(paths) : Has(last.out.msg, paths[i])
              /\ tesseract_cmd = DefaultCmd

\* no candidate is accepted, and the probe of the first candidate raised or
\* timed out: the loop still went through all five candidates
C2_Witness ==
    /\ pc = "crashed"
    /\ hint = BareName
    /\ pathProbe \in {"timeout", "raise"}
    /\ Len(initLog) = 5

\* C3, as stated: a locator that completes leaves a validated, runnable reference.
C3_ReferenceRunnable == pc = "ready" => Runnable(tesseract_cmd)

\* C3, amended: a locator that completes leaves either the bare name, whose
\* version probe exited 0, or a path-form candidate that exists on the
\* filesystem (and was not run).
C3_ReferenceExistsOrProbed ==
    pc = "ready" =>
        \/ tesseract_cmd = BareName /\ pathProbe = "ok"
        \/ /\ tesseract_cmd # BareName
           /\ tesseract_cmd \in existing
           /\ initLog[Len(initLog)] = Check("exists", tesseract_cmd, "True")
           /\ \A k \in 1..Len(initLog) : initLog[k].check = "probe" => initLog[k].path = BareName

\* the accepted path exists and would not run
C3_Witness == pc = "ready" /\ tesseract_cmd \in existing \ runnable

\* the extension: what follows the last dot
ExtensionOf(s) ==
    LET dots == {i \in 1..Len(s) : s[i] = "."} IN
    IF dots = {} THEN <<"<none>">>
    ELSE SubSeq(s, (CHOOSE i \in dots : \A j \in dots : j <= i) + 1, Len(s))

ExtensionNames ==
    { <<"p", "n", "g">>, <<"j", "p", "g">>, <<"j", "p", "e", "g">>, <<"b", "m", "p">> }

CasePairs ==
    { <<"P", "p">>, <<"N", "n">>, <<"G", "g">>, <<"J", "j">>, <<"E", "e">>,
      <<"B", "b">>, <<"M", "m">> }

SameIgnoringCase(s, name) ==
    /\ Len(s) = Len(name)
    /\ \A i \in 1..Len(s) : s[i] = name[i] \/ <<s[i], name[i]>> \in CasePairs

SupportedExtension(s) == \E name \in ExtensionNames : SameIgnoringCase(ExtensionOf(s), name)

\* C4: the format gate of process_image, reached by a non-empty path that
\* exists: a png, jpg, jpeg or bmp extension in any letter case is passed on to
\* the invoker; any other extension is rejected with "Unsupported file format".
\* The invoker is never called for a path with another extension.
C4_FormatGate ==
    (last.op = "process_image" /\ Truthy(last.path)) =>
        /\ (Exists(last.path, last.env) /\ SupportedExtension(last.path.s)) =>
              Before(last.out.log, "exists_image", "call_extract_text")
        /\ ~SupportedExtension(last.path.s) => ~Has(last.out.log, "call_extract_text")
        /\ (Exists(last.path, last.env) /\ ~SupportedExtension(last.path.s)) =>
              last.out = Return(FALSE, <<"Unsupported file format">>, <<"exists_image">>)

\* a mixed-case extension went through the gate and the text came back
C4_Witness ==
    /\ last.op = "process_image"
    /\ last.path = PyStr(<<"a", ".", "J", "p", "G">>)
    /\ last.out.ok
    /\ last.out.msg = <<"T">>

\* C5: for a non-empty path that does not exist process_image returns
\* (False, "File not found") after the existence check alone: no open, no
\* filter, no probe, no recognition.  For an empty path (None or "") it returns
\* a failure before any filesystem access.
C5_MissingFile ==
    last.op = "process_image" =>
        /\ (Truthy(last.path) /\ ~Exists(last.path, last.env)) =>
              last.out = Return(FALSE, <<"File not found">>, <<"exists_image">>)
        /\ ~Truthy(last.path) =>
              /\ last.out.kind = "return"
              /\ ~last.out.ok
              /\ last.out.msg # <<>>
              /\ last.out.log = <<>>

\* a path with a supported extension that does not exist
C5_Witness ==
    /\ last.op = "process_image"
    /\ last.path = APng
    /\ last.env.fstate = "absent"
    /\ ~last.out.ok

BoundaryOps ==
    {"__main__", "upload_image", "App.extract_text", "App.save_text", "clear_text",
     "process_image", "save_text"}

\* C6: no exception leaves the backend facade or the application: startup, the
\* callbacks, process_image and save_text all end without raising.
C6_NothingPropagates == last.op \in BoundaryOps => last.out.kind # "raise"

\* the message of the exception that an invalid path raises inside extract_text
InvalidPathCause(image_path) ==
    CASE image_path.kind = "None" -> <<"Image path is None">>
      [] image_path.kind = "int" -> <<"Image path is wrong type: ", "<class 'int'>">>
      [] image_path.s = <<>> -> <<"Image path is empty string">>
      [] OTHER -> <<"Image file does not exist: ">> \o image_path.s

InvalidPath(image_path, env) == image_path.kind # "str" \/ ~Exists(image_path, env)

\* C7: extract_text on an invalid path (None, "", a wrong type, a missing file;
\* preprocessing on or off) raises the one "Text extraction failed" error, whose
\* message ends with the message of the original cause, and neither probes the
\* engine nor runs the recognition.
C7_InvalidInputBeforeEngine ==
    (last.op = "extract_text" /\ InvalidPath(last.path, last.env)) =>
        /\ last.out.kind = "raise"
        /\ Head(last.out.msg) = "Text extraction failed: "
        /\ IsSuffix(InvalidPathCause(last.path), last.out.msg)
        /\ ~Has(last.out.log, "exists_cmd")
        /\ ~Has(last.out.log, "probe_cmd")
        /\ ~Has(last.out.log, "image_to_string")

\* a missing file with preprocessing on: the cause is wrapped twice
C7_Witness ==
    /\ last.op = "extract_text"
    /\ last.path = APng
    /\ last.preprocess
    /\ last.env.fstate = "absent"
    /\ Len(last.out.msg) = 3 + Len(APng.s)

EngineBad(cmd, env) == env.probe # "ok" \/ ~(env.cmdExists \/ cmd = BareName)

\* C8: in a call of extract_text the recognition runs only after the version
\* probe of that call, and only if the probe exited 0 on a reference that exists
\* or is the bare name; otherwise the call raises "Text extraction failed" and the
\* recognition is not run.
C8_ProbeBeforeRecognition ==
    last.op = "extract_text" =>
        /\ Has(last.out.log, "image_to_string") =>
              /\ Before(last.out.log, "probe_cmd", "image_to_string")
              /\ ~EngineBad(tesseract_cmd, last.env)
        /\ EngineBad(tesseract_cmd, last.env) =>
              /\ last.out.kind = "raise"
              /\ Head(last.out.msg) = "Text extraction failed: "
              /\ ~Has(last.out.log, "image_to_string")

\* the image was loaded, the probe timed out
C8_Witness ==
    /\ last.op = "extract_text"
    /\ last.env.probe = "timeout"
    /\ Has(last.out.log, "probe_cmd")
    /\ last.out.msg = <<"Text extraction failed: ", "Tesseract test timed out">>

\* C9: after startup the engine reference stays what the locator fixed: the
\* candidate it accepted last.
C9_EnginePathFixed ==
    pc = "ready" =>
        /\ initLog # <<>>
        /\ tesseract_cmd = initLog[Len(initLog)].path

\* an extraction from the window failed on the engine's validation
C9_Witness ==
    /\ pc = "ready"
    /\ last.op = "App.extract_text"
    /\ Has(last.out.log, "probe_cmd")
    /\ ~last.out.ok

\* C10: save_text never raises.  Empty text or an empty output path is
\* rejected without touching the filesystem: nothing is opened and every file
\* is as it was.  Otherwise the text is written and the call succeeds, or it
\* returns a failure that carries the error.
C10_SaveText ==
    [][last'.op = "save_text" =>
        /\ last'.out.kind = "return"
        /\ (~Truthy(last'.text) \/ ~Truthy(last'.path)) =>
              /\ ~last'.out.ok
              /\ last'.out.msg # <<>>
              /\ last'.out.log = <<>>
              /\ disk' = disk
        /\ (Truthy(last'.text) /\ Truthy(last'.path)) =>
              \/ /\ last'.out.ok
                 /\ disk' = [disk EXCEPT ![last'.path.s] = File(last'.text.s)]
              \/ /\ ~last'.out.ok
                 /\ Head(last'.out.msg) = "Error saving file: "
                 /\ Len(last'.out.msg) > 1]_vars

\* text with an empty output path, the file on disk as it was
C10_Witness ==
    /\ last.op = "save_text"
    /\ Truthy(last.text)
    /\ last.path = PyStr(<<>>)
    /\ \E p \in OutPaths : disk[p] = File(<<"T">>)
====
